---- MODULE Spec2Model ----
(***************************************************************************)
(* Model of the asynchronous extraction pipeline of the document           *)
(* extractor: the upload handler (app/main.py create_upload_file), the     *)
(* Celery task process_file (app/tasks.py) as run by a pool of workers     *)
(* with acks_late / reject_on_worker_lost, the Redis result backend with   *)
(* result_expires, the cancel endpoint stop_task and the query endpoints   *)
(* get_task_result_json and get_all_tasks.                                 *)
(*                                                                         *)
(* Spec is the whole system.  Three parts of it are checked on their own:  *)
(* SpecPipeline (submission, workers, redelivery, cancellation, result     *)
(* query) leaves out the Redis bookkeeping of the upload handler, which    *)
(* writes only taskList, listExp and meta and is read by get_all_tasks     *)
(* alone; SpecFront (the whole upload handler and both queries) runs on a  *)
(* queue that delivers each message once; SpecLive is the pipeline with    *)
(* finitely many faults and fair workers; SpecStore follows the Redis      *)
(* bookkeeping of several upload handlers and the list query, with no      *)
(* worker running; SpecTask runs process_file for any arguments.           *)
(***************************************************************************)
EXTENDS Integers, Sequences, FiniteSets, TLC

\* ---------------------------------------------------------------- bounds
MaxUploads == 1        \* upload requests; request r is given task id r
MaxStoreUploads == 2   \* upload requests where only the metadata store is followed
NumWorkers == 2        \* worker processes pulling from the queue
NumNames   == 1        \* distinct file names a client may upload
MaxFaults  == 2        \* worker losses + redeliveries in the fair specification
TickStep   == 1800     \* granularity of the clock, in seconds
MaxTime    == 3600     \* the clock stops here
MaxSegments == 3       \* segments of a provider response drawn freely
MaxTables  == 2        \* tables of a document
MaxDocuments == 2      \* documents of a list given to generate_markdown
MaxCalls   == 2        \* calls of generate_markdown with the same list
MaxProbe   == 20       \* sizes tried on each side of 0 and of MAX_FILE_SIZE
MaxChars   == 2        \* characters of a stored markdown text

\* ------------------------------------------------------ program constants
TASK_TTL       == 3600       \* main.py:45
result_expires == 3600       \* tasks.py:30
MAX_FILE_SIZE  == 10485760   \* config.py:28

TaskIds   == 1..MaxUploads
StoreIds  == 1..MaxStoreUploads
\* what time.time() reads when the clock of the model reads 0
Epoch     == 1000
GhostId   == 0                      \* an id that no upload ever returned
AllIds    == TaskIds \cup {GhostId}
Workers   == 1..NumWorkers
Filenames == 1..NumNames
\* a MIME type is type/subtype; str.startswith("image/") reads the type
Mime(t, st) == [type |-> t, sub |-> st]
PDF       == Mime("application", "pdf")
Mimes     == {PDF, Mime("image", "png"), Mime("text", "plain")}
NoMime    == Mime("", "")
Sizes     == {0, 1, MAX_FILE_SIZE + 1}
\* what the provider call and the markdown assembly can do in one execution
Outcomes  == {"ok", "provider error", "assembly error"}
\* the same, with the steps before the provider call told apart: the upload of
\* the document to the provider, the count of the input tokens, the decoding
\* of the image
OutcomesOfCall == Outcomes \cup {"upload error"}

VARIABLES
    now,       \* wall clock, seconds
    fs,        \* upload folder: file name -> 0 (absent) or the request that wrote it
    up,        \* upload requests: r -> [pc, filename, content_mime, mime_type, size,
               \*                        timestamp, status, code, rank]; rank is
               \*                        the position of the request among the
               \*                        lpush commands done so far (0: none yet)
    broker,    \* queue message of task t: "none" | "ready" | "unacked" | "acked"
    backend,   \* result backend key celery-task-meta-<t>: [status, result, exp]
    revoked,   \* task ids the workers hold as revoked
    wk,        \* workers: w -> [task, pc, ret, raised, calls, unlink_failed];
               \*   calls counts the generate_content calls of the execution,
               \*   unlink_failed tells that its path.unlink has raised
    taskList,  \* Redis list TASK_LIST_KEY, most recent first
    listExp,   \* expiry time of TASK_LIST_KEY (0: no ttl set)
    meta,      \* Redis hash task_metadata:<t>: [present, task_id, filename,
               \*                                 timestamp, status, exp]
    extracted, \* tasks whose document some execution has extracted successfully
    faults,    \* worker losses and redeliveries counted where they are bounded
    resp       \* the answer of the query endpoint that ran in the last step

vars == <<now, fs, up, broker, backend, revoked, wk, taskList, listExp, meta,
          extracted, faults, resp>>

\* ------------------------------------------------------------ result values
NoResult == [kind |-> "none", val |-> ""]
Markdown(c) == [kind |-> "markdown", val |-> ToString(c)]
Error(msg)  == [kind |-> "error", val |-> msg]

NoMeta == [status |-> "PENDING", result |-> NoResult, exp |-> 0]
\* Redis keeps the fields of a hash as strings: an integer is stored as its
\* decimal text, and int() reads it back
RedisStr(n) == [str |-> n]
int(s) == s.str

NoRecord == [present |-> FALSE, task_id |-> 0, filename |-> 0,
             timestamp |-> RedisStr(0), status |-> "", exp |-> 0]
IdleWorker == [task |-> 0, pc |-> "idle", ret |-> NoResult, raised |-> FALSE,
               calls |-> 0, unlink_failed |-> FALSE]
NewUpload == [pc |-> "new", filename |-> 0, content_mime |-> NoMime,
              mime_type |-> NoMime, size |-> 0, timestamp |-> 0, status |-> "",
              code |-> 0, rank |-> 0, reported |-> ""]
NoResp == [op |-> "none", id |-> 0, code |-> 0, body |-> NoResult, list |-> <<>>,
           skipped |-> {}]

\* -------------------------------------------------- the result backend (Celery)
\* A key of the backend is readable until its expiry time (result_expires).
BackendLive(t) == backend[t].status # "PENDING" /\ now < backend[t].exp

\* AsyncResult(t).status: an id without a live key is reported PENDING.
AsyncResultStatus(t) == IF BackendLive(t) THEN backend[t].status ELSE "PENDING"

AsyncResultGet(t) == IF BackendLive(t) THEN backend[t].result ELSE NoResult

READY_STATES == {"SUCCESS", "FAILURE", "REVOKED"}

\* variant: the configuration turns task_track_started on
task_track_started_on == TRUE

\* celery.conf.update(...) sets no task_track_started: a worker that starts a
\* task does not record STARTED
task_track_started == FALSE

\* ------------------------------------------------------------ validation
\* utils.validate_file_size
validate_file_size(n) == n # 0 /\ ~(n > MAX_FILE_SIZE)

\* utils.validate_mime_type
validate_mime_type(m) == m = PDF \/ m.type = "image"

\* ------------------------------------------------------------ Redis keys
\* A key without a ttl (exp = 0) stays; a key with a ttl is gone at its expiry.
ListLive == Len(taskList) > 0 /\ (listExp = 0 \/ now < listExp)
LiveList == IF ListLive THEN taskList ELSE <<>>
MetaLive(t) == meta[t].present /\ (meta[t].exp = 0 \/ now < meta[t].exp)

\* ------------------------------------------------- create_upload_file
\* the upload requests of the run
Requests == DOMAIN up

\* lines 137-161: read the body, validate size and file name, stage the file.
\* File name 0 stands for a request without a file name.
UploadReceive(r, f, m, s) ==
    /\ up[r].pc = "new"
    /\ \A q \in Requests : q < r => up[q].pc # "new"
    /\ IF ~validate_file_size(s)
         THEN /\ up' = [up EXCEPT ![r] = [@ EXCEPT !.pc = "rejected",
                           !.code = IF s > MAX_FILE_SIZE THEN 413 ELSE 400]]
              /\ fs' = fs
         ELSE IF f = 0
         THEN /\ up' = [up EXCEPT ![r] = [@ EXCEPT !.pc = "rejected", !.code = 400]]
              /\ fs' = fs
         ELSE /\ up' = [up EXCEPT ![r] = [@ EXCEPT !.pc = "staged", !.filename = f,
                                          !.content_mime = m, !.size = s]]
              /\ fs' = [fs EXCEPT ![f] = r]
    /\ UNCHANGED <<now, broker, backend, revoked, wk, taskList, listExp, meta,
                   faults, extracted>>
    /\ resp' = NoResp

\* variant: the file of a rejected upload is left in the upload folder
KeepRejected(f) == fs

\* line 170: file_path.unlink(missing_ok=True) of an upload rejected for its type
UnlinkRejected(f) == [fs EXCEPT ![f] = 0]

\* variant: the id is put on the task list before the task is enqueued
UploadSubmitListFirst(r, delayOk) ==
    /\ up[r].pc = "staged"
    /\ LET f == up[r].filename IN
       IF fs[f] = 0
         THEN /\ up' = [up EXCEPT ![r] = [@ EXCEPT !.pc = "failed", !.code = 500]]
              /\ UNCHANGED <<fs, broker, taskList, listExp>>
         ELSE LET mime_type == up[fs[f]].content_mime IN
              IF ~validate_mime_type(mime_type)
                THEN /\ fs' = [fs EXCEPT ![f] = 0]
                     /\ up' = [up EXCEPT ![r] = [@ EXCEPT !.pc = "rejected",
                                                 !.code = 400]]
                     /\ UNCHANGED <<broker, taskList, listExp>>
                ELSE /\ taskList' = <<r>> \o LiveList
                     /\ listExp' = IF ListLive THEN listExp ELSE 0
                     /\ fs' = fs
                     /\ IF delayOk
                          THEN /\ broker' = [broker EXCEPT ![r] = "ready"]
                               /\ up' = [up EXCEPT ![r] = [@ EXCEPT !.pc = "listed",
                                            !.mime_type = mime_type,
                                            !.timestamp = Epoch + now,
                                            !.status = AsyncResultStatus(r),
                                            !.rank = 1 + Cardinality(
                                                {q \in Requests : up[q].rank > 0})]]
                          ELSE /\ up' = [up EXCEPT ![r] = [@ EXCEPT !.pc = "failed",
                                                           !.code = 500]]
                               /\ UNCHANGED broker
    /\ UNCHANGED <<now, backend, revoked, wk, meta, faults, extracted>>
    /\ resp' = NoResp

\* lines 164-174: sniff the MIME type of the staged path, reject and unlink,
\* or enqueue process_file.delay(file_path, mime_type) and build task_metadata
\* with task.status (lines 179-186).  magic.from_file reads whatever is at the
\* path now; it raises when the path is gone.
UploadSubmit(r, delayOk) ==
    /\ up[r].pc = "staged"
    /\ LET f == up[r].filename IN
       IF fs[f] = 0
         THEN /\ up' = [up EXCEPT ![r] = [@ EXCEPT !.pc = "failed", !.code = 500]]
              /\ UNCHANGED <<fs, broker>>
         ELSE LET mime_type == up[fs[f]].content_mime IN
              IF ~validate_mime_type(mime_type)
                THEN /\ fs' = UnlinkRejected(f)
                     /\ up' = [up EXCEPT ![r] = [@ EXCEPT !.pc = "rejected",
                                                 !.code = 400]]
                     /\ UNCHANGED broker
                ELSE IF delayOk
                THEN /\ broker' = [broker EXCEPT ![r] = "ready"]
                     /\ up' = [up EXCEPT ![r] = [@ EXCEPT !.pc = "enqueued",
                                                 !.mime_type = mime_type,
                                                 !.timestamp = Epoch + now,
                                                 !.status = AsyncResultStatus(r)]]
                     /\ fs' = fs
                ELSE /\ up' = [up EXCEPT ![r] = [@ EXCEPT !.pc = "failed",
                                                 !.code = 500]]
                     /\ UNCHANGED <<fs, broker>>
    /\ UNCHANGED <<now, backend, revoked, wk, taskList, listExp, meta, faults, extracted>>
    /\ resp' = NoResp

\* variant: the handler swallows the exception of a Redis command and answers 200
UploadFailSwallowed(r) == [up EXCEPT ![r] = [@ EXCEPT !.pc = "done", !.code = 200]]

\* a Redis command of the handler raises: the handler answers 500 (lines 214-216)
UploadFail(r) == [up EXCEPT ![r] = [@ EXCEPT !.pc = "failed", !.code = 500]]

\* variant: the id is appended at the tail of the list (rpush)
UploadRpush(r, ok) ==
    /\ up[r].pc = "enqueued"
    /\ IF ok
         THEN /\ taskList' = LiveList \o <<r>>
              /\ listExp' = IF ListLive THEN listExp ELSE 0
              /\ up' = [up EXCEPT ![r] = [@ EXCEPT !.pc = "pushed",
                           !.rank = 1 + Cardinality({q \in Requests : up[q].rank > 0})]]
         ELSE /\ up' = UploadFail(r)
              /\ UNCHANGED <<taskList, listExp>>
    /\ UNCHANGED <<now, fs, broker, backend, revoked, wk, meta, faults, extracted>>
    /\ resp' = NoResp

\* variant: the metadata of every task is stored under one key
MetadataKeyShared(r) == CHOOSE q \in Requests : \A p \in Requests : q <= p

\* lines 191-192: the key f"task_metadata:{task.id}" of the record of task r
MetadataKey(r) == r

\* line 189: lpush(TASK_LIST_KEY, task.id)
UploadLpush(r, ok) ==
    /\ up[r].pc = "enqueued"
    /\ IF ok
         THEN /\ taskList' = <<r>> \o LiveList
              /\ listExp' = IF ListLive THEN listExp ELSE 0
              /\ up' = [up EXCEPT ![r] = [@ EXCEPT !.pc = "pushed",
                           !.rank = 1 + Cardinality({q \in Requests : up[q].rank > 0})]]
         ELSE /\ up' = UploadFail(r)
              /\ UNCHANGED <<taskList, listExp>>
    /\ UNCHANGED <<now, fs, broker, backend, revoked, wk, meta, faults, extracted>>
    /\ resp' = NoResp

\* line 190: expire(TASK_LIST_KEY, TASK_TTL)
UploadExpireList(r, ok) ==
    /\ up[r].pc = "pushed"
    /\ IF ok
         THEN /\ listExp' = IF ListLive THEN now + TASK_TTL ELSE listExp
              /\ up' = [up EXCEPT ![r] = [@ EXCEPT !.pc = "listed"]]
         ELSE /\ up' = UploadFail(r)
              /\ UNCHANGED listExp
    /\ UNCHANGED <<now, fs, broker, backend, revoked, wk, taskList, meta, faults, extracted>>
    /\ resp' = NoResp

\* line 191: hset("task_metadata:<id>", mapping=task_metadata)
UploadHset(r, ok) ==
    /\ up[r].pc = "listed"
    /\ IF ok
         THEN /\ meta' = [meta EXCEPT ![MetadataKey(r)] = [present |-> TRUE, task_id |-> r,
                             filename |-> up[r].filename,
                             timestamp |-> RedisStr(up[r].timestamp),
                             status |-> up[r].status,
                             exp |-> IF MetaLive(MetadataKey(r))
                                       THEN meta[MetadataKey(r)].exp ELSE 0]]
              /\ up' = [up EXCEPT ![r] = [@ EXCEPT !.pc = "hashed"]]
         ELSE /\ up' = UploadFail(r)
              /\ UNCHANGED meta
    /\ UNCHANGED <<now, fs, broker, backend, revoked, wk, taskList, listExp, faults, extracted>>
    /\ resp' = NoResp

\* line 192: expire("task_metadata:<id>", TASK_TTL)
UploadExpireMeta(r, ok) ==
    /\ up[r].pc = "hashed"
    /\ IF ok
         THEN /\ meta' = [meta EXCEPT ![r] =
                            IF MetaLive(r) THEN [@ EXCEPT !.exp = now + TASK_TTL] ELSE @]
              /\ up' = [up EXCEPT ![r] = [@ EXCEPT !.pc = "stored"]]
         ELSE /\ up' = UploadFail(r)
              /\ UNCHANGED meta
    /\ UNCHANGED <<now, fs, broker, backend, revoked, wk, taskList, listExp, faults, extracted>>
    /\ resp' = NoResp

\* lines 195-210: read the record back for the log and answer 200
UploadReturn(r, ok) ==
    /\ up[r].pc = "stored"
    /\ up' = IF ok THEN [up EXCEPT ![r] = [@ EXCEPT !.pc = "done", !.code = 200]]
                   ELSE UploadFail(r)
    /\ UNCHANGED <<now, fs, broker, backend, revoked, wk, taskList, listExp, meta,
                   faults, extracted>>
    /\ resp' = NoResp

\* ------------------------------------------ services.py: the provider's text
\* A tagged value: a function on the one-element domain {kind}
Tagged(kind, v) == [k \in {kind} |-> v]
Kind(x) == CHOOSE k \in DOMAIN x : TRUE
Val(x) == x[Kind(x)]

\* A text is a sequence of segments: a run of whitespace, a fence, a run of
\* plain characters, or the JSON text of one JSON value.  Segments are maximal:
\* a fence followed by the letters json is the segment FenceJson.
Ws == Tagged("ws", " ")
\* the opening fence ```json and the closing fence ```
FenceJson == Tagged("fence", "json")
Fence == Tagged("fence", "")
Chars(s) == Tagged("chars", s)
Lit(s) == Tagged("lit", s)
Num(n) == Tagged("int", n)

\* JSON values, as json.loads builds them
JNull == Tagged("null", 0)
JStr(s) == Tagged("string", s)
JArr(elems) == Tagged("array", elems)
\* an object: the set of its <<key, value>> members
JObj(members) == Tagged("object", {<<k, members[k]>> : k \in DOMAIN members})
Keys(value) == {m[1] : m \in Val(value)}
JsonText(value) == Tagged("json", value)

\* str.strip()
RECURSIVE lstrip(_)
lstrip(s) == IF Len(s) > 0 /\ Head(s) = Ws THEN lstrip(Tail(s)) ELSE s

RECURSIVE rstrip(_)
rstrip(s) == IF Len(s) > 0 /\ s[Len(s)] = Ws THEN rstrip(SubSeq(s, 1, Len(s) - 1)) ELSE s

strip(s) == rstrip(lstrip(s))

startswith(s, prefix) == Len(s) > 0 /\ Head(s) = prefix

endswith(s, suffix) == Len(s) > 0 /\ s[Len(s)] = suffix

\* data[7:-3] of a text that starts with ```json and ends with ```
Between(data) == SubSeq(data, 2, Len(data) - 1)

\* json.loads: the text must be exactly one JSON value, else JSONDecodeError
json_loads(s) ==
    IF Len(s) = 1 /\ Kind(s[1]) = "json"
        THEN [ok |-> TRUE, value |-> Val(s[1])]
        ELSE [ok |-> FALSE, value |-> JNull]

\* the characters of a decoded JSON string, as a text
TextOf(s) == IF s = "" THEN <<>> ELSE <<Chars(s)>>

\* parsed_data.get(key, default): AttributeError unless parsed_data is a dict
HasGet(value) == Kind(value) = "object"

\* variant: a response without a text field has no default
DefaultTextNone == JNull

\* parsed_data.get("text", "")
DefaultText == JStr("")

\* parsed_data.get("tables", [])
DefaultTables == JArr(<<>>)

get(value, key, default) ==
    IF key \in Keys(value) THEN (CHOOSE m \in Val(value) : m[1] = key)[2] ELSE default

\* pydantic: list[str]
IsStrList(x) ==
    Kind(x) = "array" /\ \A i \in 1..Len(Val(x)) : Kind(Val(x)[i]) = "string"

StrList(x) == [i \in 1..Len(Val(x)) |-> Val(Val(x)[i])]

\* Table(**t): t must be a mapping with headers: list[str], rows: list[list[str]]
TableValid(t) ==
    /\ Kind(t) = "object"
    /\ {"headers", "rows"} \subseteq Keys(t)
    /\ IsStrList(get(t, "headers", JNull))
    /\ Kind(get(t, "rows", JNull)) = "array"
    /\ \A i \in 1..Len(Val(get(t, "rows", JNull))) :
          IsStrList(Val(get(t, "rows", JNull))[i])

Table(t) ==
    [headers |-> StrList(get(t, "headers", JNull)),
     rows |-> [i \in 1..Len(Val(get(t, "rows", JNull))) |->
                  StrList(Val(get(t, "rows", JNull))[i])]]

\* for t in parsed_data.get("tables", []): a list yields its elements; a
\* string yields its characters and a dict its keys, none of them a mapping;
\* anything else is not iterable
Iterable(x) == Kind(x) \in {"array", "string", "object"}

Elements(x) ==
    CASE Kind(x) = "array" -> Val(x)
      [] Kind(x) = "string" -> IF Val(x) = "" THEN <<>> ELSE <<JStr(Val(x))>>
      [] Kind(x) = "object" -> [i \in 1..Cardinality(Keys(x)) |-> JStr("key")]
      [] OTHER -> <<>>

\* ExtractedData(text=..., tables=[Table(**t) for t in ...])
ExtractedDataValid(text, tables) ==
    /\ Iterable(tables)
    /\ \A i \in 1..Len(Elements(tables)) : TableValid(Elements(tables)[i])
    /\ Kind(text) = "string"

ExtractedData(text, tables) ==
    [text |-> TextOf(Val(text)),
     tables |-> [i \in 1..Len(Elements(tables)) |-> Table(Elements(tables)[i])]]

\* ExtractedData(text=response.text or "")
AsPlainTextTrimmed(raw) == [text |-> strip(raw), tables |-> <<>>]

AsPlainText(raw) == [text |-> raw, tables |-> <<>>]

Returned(value) == [raised |-> FALSE, value |-> value, detail |-> ""]

HTTPException500(detail) == [raised |-> TRUE, value |-> <<>>, detail |-> detail]

\* variant: the image path keeps the text of the parsed response only
extract_content_from_image_text_only(raw) ==
    LET data == strip(raw) IN
    IF startswith(data, FenceJson) /\ endswith(data, Fence)
        THEN LET parsed_data == json_loads(strip(Between(data))) IN
             IF ~parsed_data.ok
                 THEN Returned(AsPlainText(raw))
             ELSE IF ~HasGet(parsed_data.value)
                 THEN HTTPException500("Error processing image")
             ELSE LET text == get(parsed_data.value, "text", DefaultText) IN
                  IF ExtractedDataValid(text, DefaultTables)
                      THEN Returned(ExtractedData(text, DefaultTables))
                      ELSE HTTPException500("Error processing image")
        ELSE Returned(AsPlainText(raw))

\* extract_content_from_image, from the provider's response on: one document
extract_content_from_image(raw) ==
    LET data == strip(raw) IN
    IF startswith(data, FenceJson) /\ endswith(data, Fence)
        THEN LET parsed_data == json_loads(strip(Between(data))) IN
             IF ~parsed_data.ok
                 THEN Returned(AsPlainText(raw))
             ELSE IF ~HasGet(parsed_data.value)
                 THEN HTTPException500("Error processing image")
             ELSE LET text == get(parsed_data.value, "text", DefaultText)
                      tables == get(parsed_data.value, "tables", DefaultTables) IN
                  IF ExtractedDataValid(text, tables)
                      THEN Returned(ExtractedData(text, tables))
                      ELSE HTTPException500("Error processing image")
        ELSE Returned(AsPlainText(raw))

\* extract_content_from_pdf, from the provider's response on: a list of one
\* document
extract_content_from_pdf(raw) ==
    LET data == strip(raw) IN
    IF startswith(data, FenceJson) /\ endswith(data, Fence)
        THEN LET parsed_data == json_loads(strip(Between(data))) IN
             IF ~parsed_data.ok
                 THEN Returned(<<AsPlainText(raw)>>)
             ELSE IF ~HasGet(parsed_data.value)
                 THEN HTTPException500("Error processing PDF")
             ELSE LET text == get(parsed_data.value, "text", DefaultText)
                      tables == get(parsed_data.value, "tables", DefaultTables) IN
                  IF ExtractedDataValid(text, tables)
                      THEN Returned(<<ExtractedData(text, tables)>>)
                      ELSE HTTPException500("Error processing PDF")
        ELSE Returned(<<AsPlainText(raw)>>)

\* ------------------------------------------------ services.py: generate_markdown
\* The output is the sequence of its pieces: literal characters, the characters
\* of a text or of a cell, and formatted integers.
NL == Lit("\n")
Pipe == Lit("|")

\* sep.join(parts)
RECURSIVE Join(_, _)
Join(parts, sep) ==
    IF Len(parts) = 0 THEN <<>>
    ELSE IF Len(parts) = 1 THEN parts[1]
    ELSE parts[1] \o <<sep>> \o Join(Tail(parts), sep)

\* "|" + "|".join(cells) + "|\n"
RowLine(cells) == <<Pipe>> \o Join([k \in 1..Len(cells) |-> TextOf(cells[k])], Pipe) \o <<Pipe, NL>>

\* "|" + "|".join(["---"] * len(headers)) + "|\n"
RuleLine(headers) == <<Pipe>> \o Join([k \in 1..Len(headers) |-> <<Lit("---")>>], Pipe) \o <<Pipe, NL>>

\* for row in table.rows
RECURSIVE RowLines(_)
RowLines(rows) == IF Len(rows) = 0 THEN <<>> ELSE RowLine(Head(rows)) \o RowLines(Tail(rows))

\* f"## Table {i + 1} (Page {page_num + 1})\n\n"
Heading(i, page_num) ==
    <<Lit("## Table "), Num(i + 1), Lit(" (Page "), Num(page_num + 1), Lit(")"), NL, NL>>

\* a row cut or filled with empty cells to the length n
Fit(row, n) == [k \in 1..n |-> IF k <= Len(row) THEN row[k] ELSE ""]

\* variant: every row is given as many cells as there are headers
TableBlockRectangular(i, page_num, table) ==
    Heading(i, page_num) \o RowLine(table.headers) \o RuleLine(table.headers)
        \o RowLines([r \in 1..Len(table.rows) |-> Fit(table.rows[r], Len(table.headers))])
        \o <<NL>>

\* lines 146-151: one table, i and page_num counted from 0 as enumerate does
TableBlock(i, page_num, table) ==
    Heading(i, page_num) \o RowLine(table.headers) \o RuleLine(table.headers)
        \o RowLines(table.rows) \o <<NL>>

\* for i, table in enumerate(data.tables): the tables from index i on
RECURSIVE TableBlocks(_, _, _)
TableBlocks(tables, i, page_num) ==
    IF i >= Len(tables) THEN <<>>
    ELSE TableBlock(i, page_num, tables[i + 1]) \o TableBlocks(tables, i + 1, page_num)

\* "---\n\n"
PageSeparator == <<Lit("---"), NL, NL>>

\* lines 143-152: the block of one document
PageBlock(page_num, data) ==
    (IF Len(data.text) > 0 THEN data.text \o <<NL, NL>> ELSE <<>>)
        \o TableBlocks(data.tables, 0, page_num)
        \o PageSeparator

\* variant: the separator stands between two documents only
RECURSIVE PageBlocksSeparatedBetween(_, _)
PageBlocksSeparatedBetween(extracted_data_list, page_num) ==
    IF page_num >= Len(extracted_data_list) THEN <<>>
    ELSE IF page_num + 1 = Len(extracted_data_list)
        THEN SubSeq(PageBlock(page_num, extracted_data_list[page_num + 1]), 1,
                    Len(PageBlock(page_num, extracted_data_list[page_num + 1])) - 3)
    ELSE PageBlock(page_num, extracted_data_list[page_num + 1])
             \o PageBlocksSeparatedBetween(extracted_data_list, page_num + 1)

\* for page_num, data in enumerate(extracted_data_list): from page_num on
RECURSIVE PageBlocks(_, _)
PageBlocks(extracted_data_list, page_num) ==
    IF page_num >= Len(extracted_data_list) THEN <<>>
    ELSE PageBlock(page_num, extracted_data_list[page_num + 1])
             \o PageBlocks(extracted_data_list, page_num + 1)

\* variant: the output is collected in a buffer that outlives the call
generate_markdown_accumulating(extracted_data_list) ==
    (IF resp.op = "generate_markdown" THEN resp.markdown ELSE <<>>)
        \o PageBlocks(extracted_data_list, 0)

generate_markdown(extracted_data_list) == PageBlocks(extracted_data_list, 0)

\* ------------------------------------------------------------ process_file
\* the part of the task the worker w is at
TaskOf(w) == wk[w].task
PathOf(t) == up[t].filename

\* Path.unlink(missing_ok=True): removes the file unless the removal fails
Unlink(f, removed) == IF removed THEN [fs EXCEPT ![f] = 0] ELSE fs

\* variant: the handler logs, cleans up and raises the exception again
process_file_reraise(msg) == [ret |-> Error(msg), raised |-> TRUE]

\* lines 81-90: the handler of "except Exception": the error is returned
process_file_except(msg) == [ret |-> Error(msg), raised |-> FALSE]

\* variant: the task is declared without acks_late, the message is
\* acknowledged when the worker takes it
ClaimAckEarly(w, t) ==
    /\ wk[w].pc = "idle"
    /\ broker[t] = "ready"
    /\ broker' = [broker EXCEPT ![t] = "acked"]
    /\ wk' = [wk EXCEPT ![w] = [IdleWorker EXCEPT !.task = t,
                  !.pc = IF t \in revoked THEN "rcheck" ELSE "check"]]
    /\ UNCHANGED <<now, fs, up, backend, revoked, taskList, listExp, meta, faults,
                   extracted>>
    /\ resp' = NoResp

\* the worker takes the message from the queue; a task id it holds as revoked
\* is not executed but announced as revoked
Claim(w, t) ==
    /\ wk[w].pc = "idle"
    /\ broker[t] = "ready"
    /\ broker' = [broker EXCEPT ![t] = "unacked"]
    /\ wk' = [wk EXCEPT ![w] = [IdleWorker EXCEPT !.task = t,
                  !.pc = IF t \in revoked THEN "rcheck" ELSE "check"]]
    /\ backend' = IF task_track_started /\ t \notin revoked
                     /\ AsyncResultStatus(t) # "SUCCESS"
                    THEN [backend EXCEPT ![t] = [status |-> "STARTED",
                             result |-> NoResult, exp |-> now + result_expires]]
                    ELSE backend
    /\ UNCHANGED <<now, fs, up, revoked, taskList, listExp, meta, faults, extracted>>
    /\ resp' = NoResp

\* lines 41-46: path.exists()
ProcessCheck(w) ==
    /\ wk[w].pc = "check"
    /\ wk' = [wk EXCEPT ![w] =
                IF fs[PathOf(TaskOf(w))] = 0
                  THEN [@ EXCEPT !.pc = "ret", !.ret = Error("File not found")]
                  ELSE [@ EXCEPT !.pc = "call"]]
    /\ UNCHANGED <<now, fs, up, broker, backend, revoked, taskList, listExp, meta,
                   faults, extracted>>
    /\ resp' = NoResp

\* variant: the provider is asked once for every page of the document
GenerateCallsPerPage(exc) ==
    IF exc \in {"No such file", "upload error"} THEN 0 ELSE 2

\* services.py extract_content_from_pdf / extract_content_from_image: the
\* number of generate_content calls of an execution that ends with exc; the
\* call is not reached when the file cannot be opened or a step before it
\* raises
GenerateCalls(exc) ==
    IF exc \in {"No such file", "upload error"} THEN 0 ELSE 1

\* Path.unlink(missing_ok=True) raises: the file is there and stays
UnlinkFails(f, removed) == fs[f] # 0 /\ ~removed

\* lines 48-61: dispatch on the MIME type, read the file, call the provider
\* (extract_content_from_pdf / extract_content_from_image), generate_markdown.
\* outcome: what the provider call and the assembly do; removed: whether the
\* unlink of the except handler succeeds.
ProcessExtract(w, outcome, removed) ==
    /\ wk[w].pc = "call"
    /\ LET t == TaskOf(w)
           f == PathOf(t)
           mime_type == up[t].mime_type
           exc == IF fs[f] = 0 THEN "No such file" ELSE outcome
           h == process_file_except(exc)
       IN  IF mime_type = PDF \/ mime_type.type = "image"
             THEN IF exc = "ok"
                    THEN /\ wk' = [wk EXCEPT ![w] = [@ EXCEPT !.pc = "cleanup",
                                                    !.ret = Markdown(fs[f]),
                                                    !.calls = GenerateCalls(exc)]]
                         /\ fs' = fs
                         /\ extracted' = extracted \cup {t}
                    ELSE /\ wk' = [wk EXCEPT ![w] = [@ EXCEPT !.pc = "ret",
                                       !.ret = h.ret, !.raised = h.raised,
                                       !.calls = GenerateCalls(exc),
                                       !.unlink_failed = UnlinkFails(f, removed)]]
                         /\ fs' = Unlink(f, removed)
                         /\ UNCHANGED extracted
             ELSE /\ wk' = [wk EXCEPT ![w] = [@ EXCEPT !.pc = "ret",
                                !.ret = Error("Unsupported file type")]]
                  /\ fs' = fs
                  /\ UNCHANGED extracted
    /\ UNCHANGED <<now, up, broker, backend, revoked, taskList, listExp, meta,
                   faults>>
    /\ resp' = NoResp

\* variant: the exception of the unlink reaches the handler of the task
CleanupResultEscalated(ret, failed) == IF failed THEN Error("cleanup error") ELSE ret

\* lines 64-68: the exception of the unlink is logged; the result stays
CleanupResult(ret, failed) == ret

\* lines 63-79: remove the uploaded file, return the markdown and the tokens
ProcessCleanup(w, removed) ==
    /\ wk[w].pc = "cleanup"
    /\ fs' = Unlink(PathOf(TaskOf(w)), removed)
    /\ wk' = [wk EXCEPT ![w] = [@ EXCEPT !.pc = "ret",
                  !.ret = CleanupResult(@, UnlinkFails(PathOf(TaskOf(w)), removed)),
                  !.unlink_failed = UnlinkFails(PathOf(TaskOf(w)), removed)]]
    /\ UNCHANGED <<now, up, broker, backend, revoked, taskList, listExp, meta,
                   faults, extracted>>
    /\ resp' = NoResp

\* ------------------------------------------------ the worker around the task
\* The backend stores the outcome of a task under its id unless the id is
\* already in SUCCESS; the read and the write are two commands.
StoreCheck(w) ==
    /\ wk[w].pc \in {"ret", "rcheck"}
    /\ wk' = [wk EXCEPT ![w] = [@ EXCEPT !.pc =
                IF AsyncResultStatus(TaskOf(w)) = "SUCCESS" THEN "ack"
                ELSE IF wk[w].pc = "ret" THEN "set" ELSE "rset"]]
    /\ UNCHANGED <<now, fs, up, broker, backend, revoked, taskList, listExp, meta,
                   faults, extracted>>
    /\ resp' = NoResp

\* the state a returned (or raised) task function is stored with
StateOfOutcome(raised) == IF raised THEN "FAILURE" ELSE "SUCCESS"

\* variant: the store keeps the first outcome written for an id
StoreSetIfAbsent(w) ==
    /\ wk[w].pc \in {"set", "rset"}
    /\ backend' = IF BackendLive(TaskOf(w)) THEN backend
                  ELSE [backend EXCEPT ![TaskOf(w)] =
                          IF wk[w].pc = "set"
                            THEN [status |-> "SUCCESS", result |-> wk[w].ret,
                                  exp |-> now + result_expires]
                            ELSE [status |-> "REVOKED", result |-> Error("revoked"),
                                  exp |-> now + result_expires]]
    /\ wk' = [wk EXCEPT ![w] = [@ EXCEPT !.pc = "ack"]]
    /\ UNCHANGED <<now, fs, up, broker, revoked, taskList, listExp, meta, faults,
                   extracted>>
    /\ resp' = NoResp

StoreSet(w) ==
    /\ wk[w].pc \in {"set", "rset"}
    /\ backend' = [backend EXCEPT ![TaskOf(w)] =
          IF wk[w].pc = "set"
            THEN [status |-> StateOfOutcome(wk[w].raised), result |-> wk[w].ret,
                  exp |-> now + result_expires]
            ELSE [status |-> "REVOKED", result |-> Error("revoked"),
                  exp |-> now + result_expires]]
    /\ wk' = [wk EXCEPT ![w] = [@ EXCEPT !.pc = "ack"]]
    /\ UNCHANGED <<now, fs, up, broker, revoked, taskList, listExp, meta, faults, extracted>>
    /\ resp' = NoResp

\* acks_late: the message is acknowledged after the outcome has been stored
Ack(w) ==
    /\ wk[w].pc = "ack"
    /\ broker' = [broker EXCEPT ![TaskOf(w)] = IF @ = "unacked" THEN "acked" ELSE @]
    /\ wk' = [wk EXCEPT ![w] = IdleWorker]
    /\ UNCHANGED <<now, fs, up, backend, revoked, taskList, listExp, meta, faults, extracted>>
    /\ resp' = NoResp

\* variant: the message of a lost worker is acknowledged, not put back
WorkerLostAcks(w) ==
    /\ wk[w].pc # "idle"
    /\ broker' = [broker EXCEPT ![TaskOf(w)] = IF @ = "unacked" THEN "acked" ELSE @]
    /\ wk' = [wk EXCEPT ![w] = IdleWorker]
    /\ UNCHANGED <<now, fs, up, backend, revoked, taskList, listExp, meta, extracted>>
    /\ resp' = NoResp

\* reject_on_worker_lost: the message of a lost worker goes back to the queue
WorkerLost(w) ==
    /\ wk[w].pc # "idle"
    /\ broker' = [broker EXCEPT ![TaskOf(w)] = IF @ = "unacked" THEN "ready" ELSE @]
    /\ wk' = [wk EXCEPT ![w] = IdleWorker]
    /\ UNCHANGED <<now, fs, up, backend, revoked, taskList, listExp, meta, extracted>>
    /\ resp' = NoResp

Crash(w) == WorkerLost(w) /\ UNCHANGED faults

\* at-least-once delivery: an unacknowledged message is delivered again
\* (visibility timeout) while its first execution may still be running
VisibilityTimeout(t) ==
    /\ broker[t] = "unacked"
    /\ broker' = [broker EXCEPT ![t] = "ready"]
    /\ UNCHANGED <<now, fs, up, backend, revoked, wk, taskList, listExp, meta, extracted>>
    /\ resp' = NoResp

Redeliver(t) == VisibilityTimeout(t) /\ UNCHANGED faults

\* the same two faults, counted: they happen MaxFaults times at most
CrashCounted(w) ==
    /\ faults < MaxFaults
    /\ faults' = faults + 1
    /\ WorkerLost(w)

RedeliverCounted(t) ==
    /\ faults < MaxFaults
    /\ faults' = faults + 1
    /\ VisibilityTimeout(t)

\* revoke(terminate=True) reaches a worker that is executing the task: the
\* execution is killed and the task is announced as revoked
Terminate(w) ==
    /\ wk[w].pc \in {"check", "call", "cleanup", "ret", "set"}
    /\ TaskOf(w) \in revoked
    /\ wk' = [wk EXCEPT ![w] = [IdleWorker EXCEPT !.task = TaskOf(w), !.pc = "rcheck"]]
    /\ UNCHANGED <<now, fs, up, broker, backend, revoked, taskList, listExp, meta,
                   faults, extracted>>
    /\ resp' = NoResp

\* ------------------------------------------------------------ endpoints
\* main.py stop_task: the revoke is broadcast to the workers; the answer is
\* the same message for every id
stop_task(t) ==
    /\ revoked' = revoked \cup {t}
    /\ resp' = NoResp
    /\ UNCHANGED <<now, fs, up, broker, backend, wk, taskList, listExp, meta, faults, extracted>>

\* variant: the handler answers for a task that is not ready as for a failed one
get_task_result_json_unready_fails(t) ==
    LET status == AsyncResultStatus(t)
        result == AsyncResultGet(t)
    IN  IF status = "SUCCESS"
          THEN IF result.kind = "error"
                 THEN [code |-> 500, body |-> result]
               ELSE IF result.kind = "markdown"
                 THEN [code |-> 200, body |-> result]
               ELSE [code |-> 500, body |-> Error("Invalid task result format")]
          ELSE [code |-> 500, body |-> Error("Task failed")]

\* variant: the handler does not look for the "error" key of the result
get_task_result_json_no_error_key(t) ==
    LET status == AsyncResultStatus(t)
        result == AsyncResultGet(t)
    IN  IF status \in READY_STATES
          THEN IF status = "SUCCESS"
                 THEN IF result.kind \in {"markdown", "error"}
                        THEN [code |-> 200, body |-> result]
                      ELSE [code |-> 500, body |-> Error("Invalid task result format")]
                 ELSE [code |-> 500, body |-> Error("Task failed")]
          ELSE [code |-> 404, body |-> Error("Task not ready yet.")]

\* main.py get_task_result_json: the answer for the id t in the current state
get_task_result_json(t) ==
    LET status == AsyncResultStatus(t)
        result == AsyncResultGet(t)
    IN  IF status \in READY_STATES
          THEN IF status = "SUCCESS"
                 THEN IF result.kind = "error"
                        THEN [code |-> 500, body |-> result]
                      ELSE IF result.kind = "markdown"
                        THEN [code |-> 200, body |-> result]
                      ELSE [code |-> 500, body |-> Error("Invalid task result format")]
                 ELSE [code |-> 500, body |-> Error("Task failed")]
          ELSE [code |-> 404, body |-> Error("Task not ready yet.")]

GetTaskResult(t) ==
    /\ resp' = [NoResp EXCEPT !.op = "result", !.id = t,
                              !.code = get_task_result_json(t).code,
                              !.body = get_task_result_json(t).body]
    /\ UNCHANGED <<now, fs, up, broker, backend, revoked, wk, taskList, listExp, meta,
                   faults, extracted>>

\* str.encode("utf-8") of one code point
Utf8(c) ==
    IF c < 128 THEN <<c>>
    ELSE IF c < 2048 THEN <<192 + (c \div 64), 128 + (c % 64)>>
    ELSE IF c < 65536
      THEN <<224 + (c \div 4096), 128 + ((c \div 64) % 64), 128 + (c % 64)>>
    ELSE <<240 + (c \div 262144), 128 + ((c \div 4096) % 64),
           128 + ((c \div 64) % 64), 128 + (c % 64)>>

\* variant: the content is encoded as ASCII, other characters become "?"
RECURSIVE encode_ascii(_)
encode_ascii(str) ==
    IF str = <<>> THEN <<>>
    ELSE <<IF Head(str) < 128 THEN Head(str) ELSE 63>> \o encode_ascii(Tail(str))

\* markdown_content.encode("utf-8"): the bytes of a text given by its code points
RECURSIVE encode(_)
encode(str) == IF str = <<>> THEN <<>> ELSE Utf8(Head(str)) \o encode(Tail(str))

Bytes(b) == [kind |-> "bytes", val |-> b]

\* variant: a result without the "markdown" key is streamed as an empty file
download_markdown_empty_file(t) ==
    LET status == AsyncResultStatus(t)
        result == AsyncResultGet(t)
    IN  IF status \notin READY_STATES
          THEN [code |-> 404, body |-> Error("File not found or expired.")]
        ELSE IF status # "SUCCESS"
          THEN [code |-> 500, body |-> Error("Task failed to complete successfully.")]
        ELSE IF result.kind = "none"
          THEN [code |-> 500, body |-> Error("Invalid task result format.")]
        ELSE IF result.kind = "error"
          THEN [code |-> 500, body |-> result]
        ELSE IF result.kind # "markdown"
          THEN [code |-> 200, body |-> Bytes(<<>>)]
        ELSE [code |-> 200, body |-> Bytes(encode(result.val))]

\* main.py download_markdown: the answer for the id t in the current state
download_markdown(t) ==
    LET status == AsyncResultStatus(t)
        result == AsyncResultGet(t)
    IN  IF status \notin READY_STATES
          THEN [code |-> 404, body |-> Error("File not found or expired.")]
        ELSE IF status # "SUCCESS"
          THEN [code |-> 500, body |-> Error("Task failed to complete successfully.")]
        ELSE IF result.kind = "none"
          THEN [code |-> 500, body |-> Error("Invalid task result format.")]
        ELSE IF result.kind = "error"
          THEN [code |-> 500, body |-> result]
        ELSE IF result.kind # "markdown"
          THEN [code |-> 500, body |-> Error("No markdown content available.")]
        ELSE [code |-> 200, body |-> Bytes(encode(result.val))]

DownloadMarkdown(t) ==
    /\ resp' = [NoResp EXCEPT !.op = "download", !.id = t,
                              !.code = download_markdown(t).code,
                              !.body = download_markdown(t).body]
    /\ UNCHANGED <<now, fs, up, broker, backend, revoked, wk, taskList, listExp, meta,
                   faults, extracted>>

\* variant: the fallback record reports the status "unknown"
TaskRecord_unknown(t) ==
    IF MetaLive(t)
      THEN [task_id |-> t, status |-> AsyncResultStatus(t),
            filename |-> ToString(meta[t].filename),
            timestamp |-> int(meta[t].timestamp)]
      ELSE [task_id |-> t, status |-> "unknown", filename |-> "Unknown",
            timestamp |-> 0]

\* variant: the record keeps the status stored with the metadata
TaskRecord_stored_status(t) ==
    IF MetaLive(t)
      THEN [task_id |-> t, status |-> meta[t].status,
            filename |-> ToString(meta[t].filename),
            timestamp |-> int(meta[t].timestamp)]
      ELSE [task_id |-> t, status |-> AsyncResultStatus(t), filename |-> "Unknown",
            timestamp |-> 0]

\* main.py get_all_tasks, lines 227-253: the record made for one id of the
\* list: the stored metadata with the status of the result backend put over
\* it, or the fallback record when hgetall finds nothing
TaskRecord(t) ==
    IF MetaLive(t)
      THEN [task_id |-> t, status |-> AsyncResultStatus(t),
            filename |-> ToString(meta[t].filename),
            timestamp |-> int(meta[t].timestamp)]
      ELSE [task_id |-> t, status |-> AsyncResultStatus(t), filename |-> "Unknown",
            timestamp |-> 0]

\* lines 225-257: the loop over the ids; an id whose processing raises (bad)
\* is logged and skipped
RECURSIVE CollectAborting(_, _)
RECURSIVE Collect(_, _)

\* a stored field that is no decimal text
NotAnInteger == [raw |-> "abc"]

\* lines 236-237: int(metadata["timestamp"]) raises ValueError for the id t
TimestampRaises(t) == MetaLive(t) /\ "str" \notin DOMAIN meta[t].timestamp

\* variant: one try block around the whole loop, the first exception ends it
CollectAborting(ids, bad) ==
    IF ids = <<>> THEN <<>>
    ELSE IF Head(ids) \in bad \/ TimestampRaises(Head(ids)) THEN <<>>
    ELSE <<TaskRecord(Head(ids))>> \o CollectAborting(Tail(ids), bad)

Collect(ids, bad) ==
    IF ids = <<>> THEN <<>>
    ELSE (IF Head(ids) \in bad \/ TimestampRaises(Head(ids))
            THEN <<>> ELSE <<TaskRecord(Head(ids))>>)
         \o Collect(Tail(ids), bad)

\* variant: an id without metadata is left out of the answer
get_all_tasks_with_metadata_only(bad) ==
    Collect(LiveList, bad \cup {t \in Requests : ~MetaLive(t)})

\* main.py get_all_tasks: lrange(TASK_LIST_KEY, 0, -1), then one record per id
get_all_tasks(bad) == Collect(LiveList, bad)

\* the ids of the list that an answer leaves out
Skipped(bad) ==
    {t \in Requests : /\ t \in bad \/ TimestampRaises(t)
                      /\ \E i \in 1..Len(LiveList) : LiveList[i] = t}

\* GET /api/tasks; lrangeOk: whether the read of the list succeeds (the
\* handler has no except clause around it)
GetAllTasks(lrangeOk, bad) ==
    /\ resp' = IF lrangeOk
                 THEN [NoResp EXCEPT !.op = "list", !.code = 200,
                                     !.list = get_all_tasks(bad),
                                     !.skipped = Skipped(bad)]
                 ELSE [NoResp EXCEPT !.op = "list", !.code = 500]
    /\ UNCHANGED <<now, fs, up, broker, backend, revoked, wk, taskList, listExp, meta,
                   faults, extracted>>

\* the status that an answer of list_tasks gives for the id t
StatusIn(list, t) == list[CHOOSE i \in 1..Len(list) : list[i].task_id = t].status

\* GET /api/tasks as its client sees it: the handler changes nothing; the
\* status that the answer gives for an id is remembered as the last one
\* reported for that id
ListTasks(lrangeOk, bad) ==
    /\ resp' = IF lrangeOk
                 THEN [NoResp EXCEPT !.op = "list", !.code = 200,
                                     !.list = get_all_tasks(bad),
                                     !.skipped = Skipped(bad)]
                 ELSE [NoResp EXCEPT !.op = "list", !.code = 500]
    /\ up' = [r \in Requests |->
                IF \E i \in 1..Len(resp'.list) : resp'.list[i].task_id = r
                  THEN [up[r] EXCEPT !.reported = StatusIn(resp'.list, r)]
                  ELSE up[r]]
    /\ UNCHANGED <<now, fs, broker, backend, revoked, wk, taskList, listExp, meta,
                   faults, extracted>>

\* ------------------------------------------------------------ time
Tick ==
    /\ now + TickStep <= MaxTime
    /\ now' = now + TickStep
    /\ UNCHANGED <<fs, up, broker, backend, revoked, wk, taskList, listExp, meta,
                   faults, extracted>>
    /\ resp' = NoResp

\* the state after start-up, for a run with the upload requests Ids
InitWith(Ids) ==
    /\ now = 0
    /\ fs = [f \in Filenames |-> 0]
    /\ up = [r \in Ids |-> NewUpload]
    /\ broker = [t \in Ids |-> "none"]
    /\ backend = [t \in Ids \cup {GhostId} |-> NoMeta]
    /\ revoked = {}
    /\ wk = [w \in Workers |-> IdleWorker]
    /\ taskList = <<>>
    /\ listExp = 0
    /\ meta = [t \in Ids |-> NoRecord]
    /\ extracted = {}
    /\ faults = 0
    /\ resp = NoResp

Init == InitWith(TaskIds)

\* ------------------------------------------------------------ next-state
Submission ==
    \/ \E r \in Requests, f \in Filenames \cup {0}, m \in Mimes, s \in Sizes :
          UploadReceive(r, f, m, s)
    \/ \E r \in Requests, ok \in BOOLEAN : UploadSubmit(r, ok)

Bookkeeping ==
    \/ \E r \in Requests, ok \in BOOLEAN : UploadLpush(r, ok)
    \/ \E r \in Requests, ok \in BOOLEAN : UploadExpireList(r, ok)
    \/ \E r \in Requests, ok \in BOOLEAN : UploadHset(r, ok)
    \/ \E r \in Requests, ok \in BOOLEAN : UploadExpireMeta(r, ok)
    \/ \E r \in Requests, ok \in BOOLEAN : UploadReturn(r, ok)

Execution ==
    \/ \E w \in Workers, t \in TaskIds : Claim(w, t)
    \/ \E w \in Workers : ProcessCheck(w)
    \/ \E w \in Workers, o \in Outcomes, rm \in BOOLEAN : ProcessExtract(w, o, rm)
    \/ \E w \in Workers, rm \in BOOLEAN : ProcessCleanup(w, rm)
    \/ \E w \in Workers : StoreCheck(w)
    \/ \E w \in Workers : StoreSet(w)
    \/ \E w \in Workers : Ack(w)

Redelivery ==
    \/ \E w \in Workers : Crash(w)
    \/ \E t \in TaskIds : Redeliver(t)

Cancellation ==
    \/ \E t \in TaskIds : stop_task(t)
    \/ \E w \in Workers : Terminate(w)

\* the whole system
Next ==
    \/ Submission
    \/ Bookkeeping
    \/ Execution
    \/ Redelivery
    \/ Cancellation
    \/ \E t \in AllIds : GetTaskResult(t)
    \/ \E ok \in BOOLEAN, bad \in SUBSET Requests : GetAllTasks(ok, bad)
    \/ Tick

Spec == Init /\ [][Next]_vars

\* the task pipeline: submission, the workers with redelivery and cancellation,
\* the result backend and the result query
NextPipeline ==
    \/ Submission
    \/ Execution
    \/ Redelivery
    \/ Cancellation
    \/ \E t \in AllIds : GetTaskResult(t)
    \/ Tick

SpecPipeline == Init /\ [][NextPipeline]_vars

\* the front end: the whole upload handler with its Redis commands, the
\* workers on a queue that delivers once, cancellation, and both queries
NextFront ==
    \/ Submission
    \/ Bookkeeping
    \/ Execution
    \/ Cancellation
    \/ \E t \in AllIds : GetTaskResult(t)
    \/ \E ok \in BOOLEAN, bad \in SUBSET Requests : GetAllTasks(ok, bad)
    \/ Tick

SpecFront == Init /\ [][NextFront]_vars

\* the metadata store: MaxStoreUploads upload handlers with their Redis
\* commands interleaved, the list query, and the clock; no worker runs
InitStore == InitWith(StoreIds)

NextStore ==
    \/ Submission
    \/ Bookkeeping
    \/ \E ok \in BOOLEAN, bad \in SUBSET Requests : GetAllTasks(ok, bad)
    \/ Tick

SpecStore == InitStore /\ [][NextStore]_vars

\* the pipeline with finitely many faults and workers that keep running
WorkerStep(w) ==
    \/ \E t \in TaskIds : Claim(w, t)
    \/ ProcessCheck(w)
    \/ \E o \in Outcomes, rm \in BOOLEAN : ProcessExtract(w, o, rm)
    \/ \E rm \in BOOLEAN : ProcessCleanup(w, rm)
    \/ StoreCheck(w)
    \/ StoreSet(w)
    \/ Ack(w)

NextLive ==
    \/ Submission
    \/ \E w \in Workers : WorkerStep(w)
    \/ \E w \in Workers : CrashCounted(w)
    \/ \E t \in TaskIds : RedeliverCounted(t)
    \/ Cancellation
    \/ Tick

SpecLive == Init /\ [][NextLive]_vars /\ \A w \in Workers : WF_vars(WorkerStep(w))

\* the task on its own: process_file is enqueued by a producer with any path
\* and any MIME type (not only those the upload handler lets through), the
\* file being there or not, and the workers run it
InitTask ==
    \E f \in Filenames, m \in Mimes, exists \in BOOLEAN :
        /\ now = 0
        /\ fs = [g \in Filenames |-> IF g = f /\ exists THEN 1 ELSE 0]
        /\ up = [r \in TaskIds |-> [NewUpload EXCEPT !.pc = "called", !.filename = f,
                                      !.content_mime = m, !.mime_type = m]]
        /\ broker = [t \in TaskIds |-> "ready"]
        /\ backend = [t \in AllIds |-> NoMeta]
        /\ revoked = {}
        /\ wk = [w \in Workers |-> IdleWorker]
        /\ taskList = <<>>
        /\ listExp = 0
        /\ meta = [t \in TaskIds |-> NoRecord]
        /\ extracted = {}
        /\ faults = 0
        /\ resp = NoResp

TaskStep(w) ==
    \/ \E t \in TaskIds : Claim(w, t)
    \/ ProcessCheck(w)
    \/ \E o \in OutcomesOfCall, rm \in BOOLEAN : ProcessExtract(w, o, rm)
    \/ \E rm \in BOOLEAN : ProcessCleanup(w, rm)
    \/ StoreCheck(w)
    \/ StoreSet(w)
    \/ Ack(w)

NextTask ==
    \/ \E w \in Workers : TaskStep(w)
    \/ \E t \in TaskIds : GetTaskResult(t)

SpecTask == InitTask /\ [][NextTask]_vars

\* ------------------------------------------------ the provider's responses
Strs == {"", "Hello"}

TableA == [headers |-> <<"A">>, rows |-> << <<"1">> >>]

\* a table with a row shorter and a row longer than the headers
TableRagged == [headers |-> <<"A", "B">>, rows |-> << <<"1">>, <<"2", "3", "4">> >>]

\* a table without headers and rows
TableEmpty == [headers |-> <<>>, rows |-> <<>>]

Tables == {TableA, TableRagged, TableEmpty}

SeqsUpTo(S, n) == UNION {[1..k -> S] : k \in 0..n}

TableSeqs == SeqsUpTo(Tables, MaxTables)

\* json.dumps of a list of strings, of a table, of a document; keys: the
\* fields of the document that the object carries
JsonOfStrs(l) == JArr([i \in 1..Len(l) |-> JStr(l[i])])

JsonOfTable(tb) ==
    JObj([headers |-> JsonOfStrs(tb.headers),
          rows |-> JArr([i \in 1..Len(tb.rows) |-> JsonOfStrs(tb.rows[i])])])

JsonOfDocument(t, T, keys) ==
    JObj([k \in keys |-> IF k = "text" THEN JStr(t)
                                         ELSE JArr([i \in 1..Len(T) |-> JsonOfTable(T[i])])])

ValidDocuments ==
    {JsonOfDocument(t, T, keys) : t \in Strs, T \in TableSeqs,
                                  keys \in SUBSET {"text", "tables"}}

\* JSON values that are not a document: not an object, a field of the wrong
\* type, a table entry without headers or without rows or of the wrong type
InvalidDocuments ==
    {JNull, JArr(<<>>), JStr("Hello"),
     JObj([text |-> JNull]),
     JObj([text |-> JArr(<<>>)]),
     JObj([text |-> JStr("Hello"), tables |-> JNull]),
     JObj([text |-> JStr("Hello"), tables |-> JStr("Hello")]),
     JObj([text |-> JStr("Hello"), tables |-> JArr(<<JStr("Hello")>>)]),
     JObj([text |-> JStr("Hello"),
           tables |-> JArr(<<JObj([rows |-> JArr(<<>>)])>>)]),
     JObj([text |-> JStr("Hello"),
           tables |-> JArr(<<JObj([headers |-> JsonOfStrs(<<"A">>)])>>)]),
     JObj([text |-> JStr("Hello"),
           tables |-> JArr(<<JObj([headers |-> JStr("A"), rows |-> JArr(<<>>)])>>)]),
     JObj([text |-> JStr("Hello"),
           tables |-> JArr(<<JObj([headers |-> JsonOfStrs(<<"A">>),
                                   rows |-> JArr(<<JStr("1")>>)])>>)]),
     JObj([text |-> JStr("Hello"),
           tables |-> JArr(<<JsonOfTable(TableA), JObj([rows |-> JArr(<<>>)])>>)])}

Segments ==
    {Ws, FenceJson, Fence, Chars("Hello")}
        \cup {JsonText(v) : v \in ValidDocuments \cup InvalidDocuments}

Pad(b) == IF b THEN <<Ws>> ELSE <<>>

\* the fence, the content and the closing fence, with optional whitespace
FencedResponse(content, pad) ==
    Pad(pad[1]) \o <<FenceJson>> \o Pad(pad[2]) \o content \o Pad(pad[3])
        \o <<Fence>> \o Pad(pad[4])

\* the segments of the responses that are drawn freely
FreeSegments ==
    {Ws, FenceJson, Fence, Chars("Hello"), JsonText(JNull),
     JsonText(JsonOfDocument("Hello", <<TableA>>, {"text", "tables"}))}

\* free texts, and fenced ones carrying one segment or a short free text
Responses ==
    SeqsUpTo(FreeSegments, MaxSegments)
        \cup {FencedResponse(content, pad) :
                 content \in {<<seg>> : seg \in Segments} \cup SeqsUpTo(FreeSegments, 2),
                 pad \in [1..4 -> BOOLEAN]}

\* the text of a provider response, before it is parsed
InitText ==
    \E raw \in Responses :
        /\ now = 0
        /\ fs = [f \in Filenames |-> 0]
        /\ up = [r \in TaskIds |-> NewUpload]
        /\ broker = [t \in TaskIds |-> "none"]
        /\ backend = [t \in AllIds |-> NoMeta]
        /\ revoked = {}
        /\ wk = [w \in Workers |-> IdleWorker]
        /\ taskList = <<>>
        /\ listExp = 0
        /\ meta = [t \in TaskIds |-> NoRecord]
        /\ extracted = {}
        /\ faults = 0
        /\ resp = [op |-> "generate_content", text |-> raw]

ExtractContentFromPdf ==
    /\ resp.op = "generate_content"
    /\ resp' = [op |-> "extract_content_from_pdf", text |-> resp.text,
                out |-> extract_content_from_pdf(resp.text)]
    /\ UNCHANGED <<now, fs, up, broker, backend, revoked, wk, taskList, listExp, meta,
                   extracted, faults>>

ExtractContentFromImage ==
    /\ resp.op = "generate_content"
    /\ resp' = [op |-> "extract_content_from_image", text |-> resp.text,
                out |-> extract_content_from_image(resp.text)]
    /\ UNCHANGED <<now, fs, up, broker, backend, revoked, wk, taskList, listExp, meta,
                   extracted, faults>>

Parsed == resp.op \in {"extract_content_from_pdf", "extract_content_from_image"}

\* tasks.py lines 52 and 57: the documents handed to generate_markdown
Documents == IF resp.op = "extract_content_from_pdf" THEN resp.out.value
                                                     ELSE <<resp.out.value>>

\* tasks.py lines 50-79 and 81-90: what process_file returns after the parser
ProcessFileReturn ==
    /\ Parsed
    /\ resp' = [op |-> "process_file", text |-> resp.text, out |-> resp.out,
                ret |-> IF resp.out.raised
                          THEN process_file_except(resp.out.detail).ret
                          ELSE [kind |-> "markdown", val |-> generate_markdown(Documents)]]
    /\ UNCHANGED <<now, fs, up, broker, backend, revoked, wk, taskList, listExp, meta,
                   extracted, faults>>

NextText ==
    \/ ExtractContentFromPdf
    \/ ExtractContentFromImage
    \/ ProcessFileReturn

SpecText == InitText /\ [][NextText]_vars

\* ------------------------------------------------ documents to assemble
DocumentSet == {[text |-> TextOf(t), tables |-> T] : t \in Strs, T \in TableSeqs}

DocumentLists == SeqsUpTo(DocumentSet, MaxDocuments)

\* a list of documents, before generate_markdown is called with it
InitMarkdown ==
    \E list \in DocumentLists :
        /\ now = 0
        /\ fs = [f \in Filenames |-> 0]
        /\ up = [r \in TaskIds |-> NewUpload]
        /\ broker = [t \in TaskIds |-> "none"]
        /\ backend = [t \in AllIds |-> NoMeta]
        /\ revoked = {}
        /\ wk = [w \in Workers |-> IdleWorker]
        /\ taskList = <<>>
        /\ listExp = 0
        /\ meta = [t \in TaskIds |-> NoRecord]
        /\ extracted = {}
        /\ faults = 0
        /\ resp = [op |-> "documents", docs |-> list, markdown |-> <<>>, calls |-> 0]

\* a call of generate_markdown with the list, the first or a later one
GenerateMarkdown ==
    /\ resp.op \in {"documents", "generate_markdown"}
    /\ resp.calls < MaxCalls
    /\ resp' = [op |-> "generate_markdown", docs |-> resp.docs,
                markdown |-> generate_markdown(resp.docs), calls |-> resp.calls + 1]
    /\ UNCHANGED <<now, fs, up, broker, backend, revoked, wk, taskList, listExp, meta,
                   extracted, faults>>

NextMarkdown == GenerateMarkdown

SpecMarkdown == InitMarkdown /\ [][NextMarkdown]_vars

\* ------------------------------------------------ sizes to validate
\* the sizes around 0 and around the limit
SizeInputs ==
    (-MaxProbe..MaxProbe) \cup ((MAX_FILE_SIZE - MaxProbe)..(MAX_FILE_SIZE + MaxProbe))

\* a size, before validate_file_size is called with it
InitValidate ==
    \E n \in SizeInputs :
        /\ now = 0
        /\ fs = [f \in Filenames |-> 0]
        /\ up = [r \in TaskIds |-> NewUpload]
        /\ broker = [t \in TaskIds |-> "none"]
        /\ backend = [t \in AllIds |-> NoMeta]
        /\ revoked = {}
        /\ wk = [w \in Workers |-> IdleWorker]
        /\ taskList = <<>>
        /\ listExp = 0
        /\ meta = [t \in TaskIds |-> NoRecord]
        /\ extracted = {}
        /\ faults = 0
        /\ resp = [op |-> "file_size", size |-> n, is_valid |-> FALSE, error |-> ""]

\* utils.py lines 66-72: the call, with the message it returns
ValidateFileSize ==
    /\ resp.op = "file_size"
    /\ resp' = [op |-> "validate_file_size", size |-> resp.size,
                is_valid |-> validate_file_size(resp.size),
                error |-> IF resp.size = 0 THEN "Empty file uploaded"
                          ELSE IF resp.size > MAX_FILE_SIZE THEN "exceeds maximum"
                          ELSE ""]
    /\ UNCHANGED <<now, fs, up, broker, backend, revoked, wk, taskList, listExp, meta,
                   extracted, faults>>

NextValidate == ValidateFileSize

SpecValidate == InitValidate /\ [][NextValidate]_vars

\* ------------------------------------------------ a store to list
\* The metadata store as it may be found by list_tasks: up to two ids in the
\* list, each with no record, with the record an upload writes, or with a
\* record whose timestamp is no integer.
InitList ==
    \E ids \in {l \in SeqsUpTo(StoreIds, MaxStoreUploads) :
                   \A i, j \in 1..Len(l) : i # j => l[i] # l[j]},
       kind \in [StoreIds -> {"none", "written", "corrupted"}] :
        /\ now = 0
        /\ fs = [f \in Filenames |-> 0]
        /\ up = [r \in StoreIds |-> NewUpload]
        /\ broker = [t \in StoreIds |-> "none"]
        /\ backend = [t \in StoreIds \cup {GhostId} |-> NoMeta]
        /\ revoked = {}
        /\ wk = [w \in Workers |-> IdleWorker]
        /\ taskList = ids
        /\ listExp = TASK_TTL
        /\ meta = [t \in StoreIds |->
                     IF kind[t] = "none" THEN NoRecord
                     ELSE [present |-> TRUE, task_id |-> t, filename |-> 1,
                           timestamp |-> IF kind[t] = "written" THEN RedisStr(Epoch)
                                                                ELSE NotAnInteger,
                           status |-> "PENDING", exp |-> TASK_TTL]]
        /\ extracted = {}
        /\ faults = 0
        /\ resp = NoResp

NextList == \E ok \in BOOLEAN, bad \in SUBSET Requests : GetAllTasks(ok, bad)

SpecList == InitList /\ [][NextList]_vars

\* ------------------------------------------------ a stored result to fetch
\* The result backend as the two result endpoints may find it: the task in
\* one of the states of celery.states and, when it has succeeded, holding
\* what process_file returns (an error or a markdown text, given by its code
\* points) or what the tests store (no result, a dict without either key).
CodePoints == {65, 233, 8364, 128512}

StoredResults ==
    {NoResult, [kind |-> "other", val |-> ""], Error("File not found"),
     Error("Unsupported file type")}
        \cup {[kind |-> "markdown", val |-> s] : s \in SeqsUpTo(CodePoints, MaxChars)}

InitResult ==
    \E status \in {"PENDING", "STARTED", "RETRY", "FAILURE", "REVOKED", "SUCCESS"},
       result \in StoredResults :
        /\ status # "SUCCESS" => result = NoResult
        /\ now = 0
        /\ fs = [f \in Filenames |-> 0]
        /\ up = [r \in TaskIds |-> [NewUpload EXCEPT !.pc = "done"]]
        /\ broker = [t \in TaskIds |-> "none"]
        /\ backend = [t \in AllIds |->
                        IF t \in TaskIds
                          THEN [status |-> status, result |-> result,
                                exp |-> result_expires]
                          ELSE NoMeta]
        /\ revoked = {}
        /\ wk = [w \in Workers |-> IdleWorker]
        /\ taskList = <<>>
        /\ listExp = 0
        /\ meta = [t \in TaskIds |-> NoRecord]
        /\ extracted = {}
        /\ faults = 0
        /\ resp = NoResp

NextResult ==
    \/ \E t \in AllIds : GetTaskResult(t)
    \/ \E t \in AllIds : DownloadMarkdown(t)

SpecResult == InitResult /\ [][NextResult]_vars

\* ------------------------------------------------ listings over time
\* The first upload has been answered and its task has succeeded, all at
\* time 0: its id is in the list, its record and its result are stored, each
\* with its time-to-live. A second upload is still to come; no worker runs.
InitHistory ==
    /\ now = 0
    /\ fs = [f \in Filenames |-> 0]
    /\ up = [r \in StoreIds |->
               IF r = 1
                 THEN [NewUpload EXCEPT !.pc = "done", !.filename = 1,
                                        !.content_mime = PDF, !.mime_type = PDF,
                                        !.size = 1, !.timestamp = Epoch,
                                        !.status = "PENDING", !.code = 200, !.rank = 1]
                 ELSE NewUpload]
    /\ broker = [t \in StoreIds |-> IF t = 1 THEN "acked" ELSE "none"]
    /\ backend = [t \in StoreIds \cup {GhostId} |->
                    IF t = 1 THEN [status |-> "SUCCESS", result |-> Markdown(1),
                                   exp |-> result_expires]
                             ELSE NoMeta]
    /\ revoked = {}
    /\ wk = [w \in Workers |-> IdleWorker]
    /\ taskList = <<1>>
    /\ listExp = TASK_TTL
    /\ meta = [t \in StoreIds |->
                 IF t = 1 THEN [present |-> TRUE, task_id |-> 1, filename |-> 1,
                                timestamp |-> RedisStr(Epoch), status |-> "PENDING",
                                exp |-> TASK_TTL]
                          ELSE NoRecord]
    /\ extracted = {1}
    /\ faults = 0
    /\ resp = NoResp

NextHistory ==
    \/ Submission
    \/ Bookkeeping
    \/ \E ok \in BOOLEAN, bad \in SUBSET Requests : ListTasks(ok, bad)
    \/ Tick

SpecHistory == InitHistory /\ [][NextHistory]_vars

\* ------------------------------------------------ uploads sharing a folder
\* MaxStoreUploads upload requests up to the enqueueing of their tasks, and
\* the workers executing those tasks; every request writes to the path
\* UPLOAD_DIR / file.filename, and the names are drawn from Filenames.
WorkerOfRequests(w) ==
    \/ \E t \in Requests : Claim(w, t)
    \/ ProcessCheck(w)
    \/ \E o \in Outcomes, rm \in BOOLEAN : ProcessExtract(w, o, rm)
    \/ \E rm \in BOOLEAN : ProcessCleanup(w, rm)
    \/ StoreCheck(w)
    \/ StoreSet(w)
    \/ Ack(w)

NextShare ==
    \/ Submission
    \/ \E w \in Workers : WorkerOfRequests(w)

SpecShare == InitStore /\ [][NextShare]_vars

\* ======================================================================
\* Claims
\* ======================================================================
Executing(w, t) == TaskOf(w) = t /\ wk[w].pc \in {"check", "call", "cleanup", "ret", "set"}

\* the state changes the lifecycle of the design allows
SpecifiedChanges ==
    {<<"PENDING", "STARTED">>, <<"STARTED", "SUCCESS">>, <<"STARTED", "FAILURE">>,
     <<"PENDING", "REVOKED">>, <<"STARTED", "REVOKED">>}

\* the state changes the result backend shows
ObservedChanges ==
    {<<"PENDING", "SUCCESS">>, <<"PENDING", "REVOKED">>, <<"REVOKED", "SUCCESS">>,
     <<"SUCCESS", "REVOKED">>, <<"SUCCESS", "PENDING">>, <<"REVOKED", "PENDING">>}

C2_ErrorsAreReturned ==
    /\ \A w \in Workers :
          wk[w].pc \in {"ret", "set"} =>
              /\ ~wk[w].raised
              /\ wk[w].ret.kind \in {"markdown", "error"}
              /\ wk[w].ret.val \in (Outcomes \ {"ok"}) => wk[w].ret.kind = "error"
    /\ \A t \in TaskIds : backend[t].status # "FAILURE"

C2_Witness ==
    \E w \in Workers : wk[w].pc = "ret" /\ wk[w].ret = Error("assembly error")

\* C3 as stated: a task whose provider invocation failed is in the state
\* FAILURE.
C3_ProviderFailureIsFAILURE ==
    \A t \in TaskIds :
        BackendLive(t) /\ backend[t].result = Error("provider error")
            => AsyncResultStatus(t) = "FAILURE"

C5_RetryKeepsSuccess ==
    \A t \in extracted :
        ~(BackendLive(t) /\ backend[t].result = Error("File not found"))

\* C6 as stated: a task whose message is gone from the queue has a terminal
\* result or a worker executing it.
C6_AckOnlyAfterResult ==
    \A t \in TaskIds :
        broker[t] = "acked" =>
            \/ AsyncResultStatus(t) \in {"SUCCESS", "FAILURE"}
            \/ \E w \in Workers : Executing(w, t)

\* C6 amended: a message is acknowledged only after a terminal state has been
\* written for the task: the result of process_file, or the REVOKED marker of
\* a task that was cancelled.  The message of a task is gone, with no result to
\* read and no worker executing the task, only when the task was cancelled or
\* its stored result has expired.
C6_LateAck ==
    \A t \in TaskIds :
        broker[t] = "acked" =>
            /\ backend[t].status \in READY_STATES
            /\ backend[t].status = "REVOKED" => t \in revoked
            /\ AsyncResultStatus(t) # "SUCCESS" /\ ~(\E w \in Workers : Executing(w, t))
                  => t \in revoked \/ now >= backend[t].exp

C6_Witness ==
    \E t \in TaskIds :
        /\ broker[t] = "acked" /\ AsyncResultStatus(t) = "SUCCESS"
        /\ \A w \in Workers : wk[w].pc = "idle"

\* C7 as stated: every task that was enqueued eventually has a terminal result
\* (markdown or error) stored.
C7_EveryTaskGetsAResult ==
    \A t \in TaskIds :
        (broker[t] # "none") ~> (backend[t].status \in {"SUCCESS", "FAILURE"})

\* C7 amended: every task that was enqueued eventually has a terminal state
\* stored: a result (markdown or error) or, when it was cancelled, REVOKED.
C7_EveryTaskTerminates ==
    \A t \in TaskIds :
        (broker[t] # "none") ~> (backend[t].status \in READY_STATES)

\* a task has its result stored and its message acknowledged after MaxFaults
\* worker losses and redeliveries
C7_Witness ==
    \E t \in TaskIds :
        faults = MaxFaults /\ backend[t].status = "SUCCESS" /\ broker[t] = "acked"

\* C8 as stated: after a successful upload, while no worker has stored a
\* result for the task, the result query answers 404.
C8_FreshTaskNotReady ==
    \A t \in TaskIds :
        up[t].pc = "done" /\ backend[t].status \notin {"SUCCESS", "FAILURE"}
            => get_task_result_json(t).code = 404

\* C8 amended: after a successful upload, while no worker has stored a result
\* for the task nor announced it revoked, the result query answers 404 "Task
\* not ready yet.".
C8_FreshTaskNotReadyUnlessRevoked ==
    /\ \A t \in TaskIds :
          up[t].pc = "done" /\ backend[t].status = "PENDING"
              => get_task_result_json(t) =
                     [code |-> 404, body |-> Error("Task not ready yet.")]
    /\ resp.op = "result" /\ resp.id \in TaskIds /\ backend[resp.id].status = "PENDING"
          => resp.code = 404

C8_Witness ==
    \E t \in TaskIds, w \in Workers :
        /\ up[t].pc = "done" /\ TaskOf(w) = t /\ wk[w].pc = "cleanup"
        /\ resp.op = "result" /\ resp.id = t /\ resp.code = 404

\* C9: the result query answers 404 exactly while the state is PENDING or
\* STARTED, and answers with the stored result (200 and the markdown, 500 and
\* the error message) exactly when the state is SUCCESS or FAILURE.
C9_ResultFollowsState ==
    /\ \A t \in AllIds :
          /\ get_task_result_json(t).code = 404
                <=> AsyncResultStatus(t) \in {"PENDING", "STARTED"}
          /\ AsyncResultStatus(t) = "SUCCESS" =>
                /\ get_task_result_json(t).body = AsyncResultGet(t)
                /\ get_task_result_json(t).code = 200 <=> AsyncResultGet(t).kind = "markdown"
                /\ get_task_result_json(t).code = 500 <=> AsyncResultGet(t).kind = "error"
          /\ get_task_result_json(t).code = 200 => AsyncResultStatus(t) = "SUCCESS"
    /\ resp.op = "result" =>
          /\ resp.code = get_task_result_json(resp.id).code
          /\ resp.body = get_task_result_json(resp.id).body

C9_Witness ==
    /\ resp.op = "result" /\ resp.code = 500
    /\ resp.body = Error("provider error")
    /\ AsyncResultStatus(resp.id) = "SUCCESS"

\* C10 as stated: the result query answers differently for an id that was
\* never submitted and for a task that is submitted and not finished.
C10_UnknownIsDistinct ==
    \A t \in TaskIds :
        broker[t] \in {"ready", "unacked"} /\ AsyncResultStatus(t) = "PENDING"
            => get_task_result_json(GhostId) # get_task_result_json(t)

\* the stored task list holds the id t
Listed(t) == \E i \in 1..Len(taskList) : taskList[i] = t

\* how often the id t occurs in the sequence ids
RECURSIVE Count(_, _)
Count(t, ids) ==
    IF ids = <<>> THEN 0
    ELSE (IF Head(ids) = t THEN 1 ELSE 0) + Count(t, Tail(ids))

\* C11: a request whose task was not enqueued because process_file.delay (or
\* the sniffing before it) raised has answered 500, and neither the task list
\* nor a metadata record holds its id.
C11_FailedEnqueueLeavesNothing ==
    \A r \in Requests :
        up[r].pc = "failed" /\ broker[r] = "none" =>
            /\ up[r].code = 500
            /\ up[r].rank = 0
            /\ ~Listed(r)
            /\ ~meta[r].present

\* the enqueueing of a request with a staged, valid file has failed while
\* another request is on the task list
C11_Witness ==
    \E r, q \in Requests :
        /\ up[r].pc = "failed" /\ broker[r] = "none"
        /\ fs[up[r].filename] # 0
        /\ validate_mime_type(up[fs[up[r].filename]].content_mime)
        /\ q # r /\ Listed(q) /\ ListLive

\* C12 as stated, for an upload answered before TASK_TTL seconds have passed
\* since its submission: when the upload answers 200, its task has been
\* enqueued, the task list holds its id exactly once, and the metadata record
\* stored under the id is there and carries the id.
C12_OneTaskOneEntryOneRecord ==
    [][\A r \in Requests :
         /\ up[r].pc = "stored" /\ up'[r].pc = "done"
         /\ Epoch + now < up[r].timestamp + TASK_TTL
         =>
             /\ broker'[r] # "none"
             /\ Count(r, LiveList') = 1
             /\ MetaLive(r)'
             /\ meta'[r].task_id = r]_vars

\* C13 as stated: a request that was answered with an error (400, 413 or 500)
\* has no task: the queue never held a message for it.
C13_ErrorMeansNoTask ==
    \A r \in Requests :
        up[r].pc \in {"rejected", "failed"} => broker[r] = "none"

ListedIds == {get_all_tasks({})[i].task_id : i \in 1..Len(get_all_tasks({}))}

\* C15 as stated: the list membership of a task and its metadata record
\* expire together: once the metadata record of a submitted task is gone,
\* list_tasks no longer includes the id, whatever other uploads happened.
C15_ExpireTogether ==
    \A t \in Requests :
        up[t].pc = "done" /\ ~MetaLive(t) => t \notin ListedIds

\* C16 as stated: in every state, every metadata record that is in the store
\* has a time-to-live.
C16_EveryRecordHasTtl ==
    \A t \in Requests : MetaLive(t) => meta[t].exp > 0

\* the records of an answer come most recent first: a record stands before
\* another one only if its id was pushed onto the task list later
MostRecentFirst(records) ==
    \A i, j \in 1..Len(records) :
        i < j => up[records[i].task_id].rank > up[records[j].task_id].rank

\* C17: list_tasks returns the tracked tasks most recent first: of any two
\* returned records, the one whose id was pushed onto the task list later
\* comes first.
C17_MostRecentFirst ==
    /\ \A bad \in SUBSET Requests : MostRecentFirst(get_all_tasks(bad))
    /\ resp.op = "list" => MostRecentFirst(resp.list)

\* list_tasks has answered with two records; the request that was received
\* first pushed its id last and comes first
C17_Witness ==
    /\ resp.op = "list" /\ Len(resp.list) = 2
    /\ resp.list[1].task_id = 1 /\ resp.list[2].task_id = 2
    /\ up[1].rank = 2 /\ up[2].rank = 1

\* the ids of the stored list that an answer with the failed reads bad keeps
Kept(bad) == SelectSeq(LiveList, LAMBDA t : t \notin bad)

C20_StatusIsLive ==
    /\ \A bad \in SUBSET Requests :
          \A i \in 1..Len(get_all_tasks(bad)) :
              get_all_tasks(bad)[i].status
                  = AsyncResultStatus(get_all_tasks(bad)[i].task_id)
    /\ resp.op = "list" =>
          \A i \in 1..Len(resp.list) :
              resp.list[i].status = AsyncResultStatus(resp.list[i].task_id)

\* list_tasks has answered SUCCESS for a task whose metadata record says
\* PENDING
C20_Witness ==
    /\ resp.op = "list" /\ Len(resp.list) = 1
    /\ MetaLive(resp.list[1].task_id)
    /\ meta[resp.list[1].task_id].status = "PENDING"
    /\ resp.list[1].status = "SUCCESS"

\* C21 as stated: when a cancel request races with the execution of a task,
\* a result that a worker has written stays: the REVOKED marker does not
\* replace a state SUCCESS or FAILURE, and the result query keeps answering
\* with the written result.
C21_TerminalWriteWinsOverRevoke ==
    [][\A t \in TaskIds :
         AsyncResultStatus(t) \in {"SUCCESS", "FAILURE"} /\ now' = now =>
             /\ AsyncResultStatus(t)' # "REVOKED"
             /\ get_task_result_json(t)'.code # 500
                  \/ get_task_result_json(t)'.body.val # "Task failed"]_vars

\* the MIME types process_file has a branch for
Dispatched(m) == m = PDF \/ m.type = "image"

C23_ExactlyOneProviderCall ==
    \A w \in Workers :
        wk[w].pc = "ret" =>
            IF wk[w].ret = Error("File not found") \/ ~Dispatched(up[TaskOf(w)].mime_type)
              THEN wk[w].calls = 0 /\ wk[w].ret.kind = "error"
              ELSE wk[w].calls = 1

\* C23 amended: an execution makes at most one generate_content call.  It
\* makes none, and returns an error, when the file is missing, when the MIME
\* type is neither PDF nor image, or when a step before the call raises (the
\* file cannot be opened, the upload of the document, the token count or the
\* decoding of the image fails); in every other case it makes exactly one, and
\* a markdown result is never returned without that one call.
C23_AtMostOneProviderCall ==
    \A w \in Workers :
        /\ wk[w].calls \in {0, 1}
        /\ wk[w].pc \in {"cleanup", "ret"} =>
              /\ wk[w].ret.kind = "markdown" => wk[w].calls = 1
              /\ wk[w].calls = 0 => wk[w].ret.kind = "error"
              /\ wk[w].calls = 0 <=>
                    \/ ~Dispatched(up[TaskOf(w)].mime_type)
                    \/ wk[w].ret.val \in {"File not found", "No such file", "upload error"}

\* an execution for a PDF that exists has returned an error without having
\* called generate_content
C23_Witness ==
    \E w \in Workers :
        /\ wk[w].pc = "ret" /\ up[TaskOf(w)].mime_type = PDF
        /\ wk[w].ret = Error("upload error") /\ wk[w].calls = 0

\* ---- parsing the provider's response
\* the text, trimmed, starts with ```json and ends with ```
IsFenced(raw) == startswith(strip(raw), FenceJson) /\ endswith(strip(raw), Fence)

\* what lies between the two fences
FencedContent(raw) == strip(Between(strip(raw)))

\* C24: a response text that, trimmed, does not both start with ```json and
\* end with ```, or whose fenced content is not valid JSON, is parsed to one
\* document whose text is the entire raw text and whose tables are empty; the
\* parser raises nothing.
C24_PlainTextFallback ==
    Parsed /\ (~IsFenced(resp.text) \/ ~json_loads(FencedContent(resp.text)).ok)
        => /\ ~resp.out.raised
           /\ Documents = <<[text |-> resp.text, tables |-> <<>>]>>

\* a response with whitespace around an unfenced text, and a fenced text that
\* is no JSON, have been parsed
C24_Witness ==
    /\ Parsed
    /\ \/ resp.text = <<Ws, Chars("Hello"), Ws>>
       \/ resp.text = <<FenceJson, Chars("Hello"), Fence>>
    /\ ~resp.out.raised

\* the fenced content of the response decodes as the JSON value v
DecodesAs(raw, v) == IsFenced(raw) /\ FencedContent(raw) = <<JsonText(v)>>

\* C25: when the fenced content decodes as JSON but is not a valid structured
\* document (the top-level value is not an object, a field has the wrong type,
\* a table entry lacks headers or rows), parsing falls back to the entire raw
\* text with empty tables, and the task that parses it does not fail.
C25_InvalidDocumentFallsBack ==
    /\ Parsed /\ (\E v \in InvalidDocuments : DecodesAs(resp.text, v))
          => /\ ~resp.out.raised
             /\ Documents = <<[text |-> resp.text, tables |-> <<>>]>>
    /\ resp.op = "process_file" /\ (\E v \in InvalidDocuments : DecodesAs(resp.text, v))
          => resp.ret.kind # "error"

\* C26: for every text t and every sequence T of tables, the response made of
\* the fence ```json, the JSON object {text: t, tables: T} and the closing
\* fence, with optional whitespace around each, is parsed to exactly the text t
\* and the tables T in their order; an omitted text field gives the empty
\* text and an omitted tables field gives no tables.
C26_RoundTrip ==
    \A t \in Strs, T \in TableSeqs, keys \in SUBSET {"text", "tables"} :
        Parsed /\ DecodesAs(resp.text, JsonOfDocument(t, T, keys))
            => /\ ~resp.out.raised
               /\ Documents = <<[text |-> IF "text" \in keys THEN TextOf(t) ELSE <<>>,
                                 tables |-> IF "tables" \in keys THEN T ELSE <<>>]>>

\* a document with a text and two tables, one of them ragged, has been parsed
\* from a response with whitespace at every place, and one without any field
C26_Witness ==
    /\ Parsed
    /\ \/ /\ resp.text = <<Ws, FenceJson, Ws,
                           JsonText(JsonOfDocument("Hello", <<TableA, TableRagged>>,
                                                   {"text", "tables"})),
                           Ws, Fence, Ws>>
          /\ Documents[1].tables = <<TableA, TableRagged>>
       \/ /\ resp.text = <<FenceJson, JsonText(JsonOfDocument("", <<>>, {})), Fence>>
          /\ Documents = <<[text |-> <<>>, tables |-> <<>>]>>

Generated == resp.op = "generate_markdown"

\* the concatenation of the pieces part[1], ..., part[n]
RECURSIVE Concat(_)
Concat(parts) == IF Len(parts) = 0 THEN <<>> ELSE Head(parts) \o Concat(Tail(parts))

\* the places of the output where a line "---" stands, followed by a blank line
SeparatorPlaces(out) ==
    {i \in 1..Len(out) - 2 : /\ out[i] = Lit("---") /\ out[i + 1] = NL /\ out[i + 2] = NL
                             /\ (i = 1 \/ out[i - 1] = NL)}

PipeDelimited(cells) ==
    <<Pipe>>
        \o [k \in 1..(IF Len(cells) = 0 THEN 0 ELSE 2 * Len(cells) - 1) |->
               IF k % 2 = 1 THEN cells[(k + 1) \div 2] ELSE Pipe]
        \o <<Pipe, NL>>

\* the rendering of the n-th table of the p-th document, both counted from 1
Rendered(n, p, table) ==
    <<Lit("## Table "), Num(n), Lit(" (Page "), Num(p), Lit(")"), NL, NL>>
        \o PipeDelimited([k \in 1..Len(table.headers) |-> Chars(table.headers[k])])
        \o PipeDelimited([k \in 1..Len(table.headers) |-> Lit("---")])
        \o Concat([r \in 1..Len(table.rows) |->
               PipeDelimited([k \in 1..Len(table.rows[r]) |-> Chars(table.rows[r][k])])])
        \o <<NL>>

IsInfix(sub, s) ==
    \E i \in 0..(Len(s) - Len(sub)) : SubSeq(s, i + 1, i + Len(sub)) = sub

C30_RejectedLeavesNothing ==
    [][\A r \in Requests :
          up'[r].pc = "rejected"
              => /\ broker'[r] = "none"
                 /\ ~Listed(r)'
                 /\ up'[r].rank = 0
                 /\ ~meta'[r].present
                 /\ up[r].pc = "staged" => fs'[up[r].filename] = 0]_vars

\* one upload has been rejected for its size and another, staged, for its type
C30_Witness ==
    \E r, q \in Requests :
        /\ up[r].pc = "rejected" /\ up[r].code = 413
        /\ up[q].pc = "rejected" /\ up[q].size > 0 /\ fs[up[q].filename] = 0

\* ---- validate_file_size
\* C31: validate_file_size(n) accepts exactly the sizes n with
\* 0 < n <= MAX_FILE_SIZE: it rejects 0, every negative size and every size
\* above MAX_FILE_SIZE, and it accepts MAX_FILE_SIZE itself.
C31_AcceptsExactlyValidSizes ==
    resp.op = "validate_file_size"
        => (resp.is_valid <=> 0 < resp.size /\ resp.size <= MAX_FILE_SIZE)

C33_CleanupFailureIsNotEscalated ==
    [][\A w \in Workers :
          wk'[w].unlink_failed /\ ~wk[w].unlink_failed
              => /\ wk'[w].pc = "ret"
                 /\ ~wk'[w].raised
                 /\ wk[w].pc = "cleanup"
                       => wk'[w].ret = wk[w].ret /\ wk'[w].ret.kind = "markdown"
                 /\ wk[w].pc = "call"
                       => /\ wk'[w].ret.kind = "error"
                          /\ wk'[w].ret.val \in OutcomesOfCall \ {"ok"}]_vars

\* a result was stored for an execution whose unlink failed: the markdown,
\* with the file still in the upload folder
C33_Witness ==
    \E t \in TaskIds :
        /\ backend[t].status = "SUCCESS"
        /\ backend[t].result.kind = "markdown"
        /\ fs[PathOf(t)] # 0
        /\ \E w \in Workers : wk[w].unlink_failed /\ TaskOf(w) = t

\* ---- list_tasks and records that cannot be read
\* C34: list_tasks answers with a list whatever the metadata records hold: an
\* exception raised while one id is processed (a stored timestamp that is no
\* integer, a failed read) leaves out that id only; every other id of the
\* task list has its record in the answer, in the order of the list.
C34_OneBadRecordAffectsOnlyItsId ==
    resp.op = "list" /\ resp.code = 200 =>
        LET others == SelectSeq(LiveList, LAMBDA t : t \notin resp.skipped)
        IN  /\ \A t \in Requests : TimestampRaises(t) /\ Listed(t) => t \in resp.skipped
            /\ \A t \in resp.skipped : Listed(t)
            /\ resp.list = [i \in 1..Len(others) |-> TaskRecord(others[i])]

\* two ids are listed, the timestamp of the first is no integer, and
\* list_tasks has answered with the record of the second alone
C34_Witness ==
    /\ resp.op = "list" /\ resp.code = 200
    /\ Len(LiveList) = 2
    /\ resp.skipped = {LiveList[1]}
    /\ TimestampRaises(LiveList[1])
    /\ Len(resp.list) = 1
    /\ resp.list[1].task_id = LiveList[2]

\* ---- the two result endpoints
\* the text whose UTF-8 encoding is the byte sequence b
RECURSIVE decode(_)
decode(b) ==
    IF b = <<>> THEN <<>>
    ELSE LET h == Head(b)
             n == IF h < 128 THEN 1 ELSE IF h < 224 THEN 2 ELSE IF h < 240 THEN 3 ELSE 4
             lead == IF n = 1 THEN h ELSE IF n = 2 THEN h - 192
                     ELSE IF n = 3 THEN h - 224 ELSE h - 240
             Acc[i \in 1..n] == IF i = 1 THEN lead ELSE Acc[i - 1] * 64 + (b[i] - 128)
         IN  <<Acc[n]>> \o decode(SubSeq(b, n + 1, Len(b)))

\* C35: a completed task whose stored result is missing, has neither
\* "markdown" nor "error", or has "error" is answered with an error by both
\* get_task_result_json and download_markdown; a success answer of either
\* endpoint always carries the markdown of the stored result.
C35_NoSuccessWithoutMarkdown ==
    resp.op \in {"result", "download"} =>
        LET status == AsyncResultStatus(resp.id)
            result == AsyncResultGet(resp.id)
        IN  /\ status \in READY_STATES /\ ~(status = "SUCCESS" /\ result.kind = "markdown")
                => resp.code = 500 /\ resp.body.kind = "error"
            /\ status = "SUCCESS" /\ result.kind = "error" => resp.body = result
            /\ resp.code < 400
                => /\ status = "SUCCESS" /\ result.kind = "markdown"
                   /\ resp.body.kind \in {"markdown", "bytes"}

\* download_markdown has answered 500 for a succeeded task whose result is a
\* dict with neither key
C35_Witness ==
    /\ resp.op = "download" /\ resp.code = 500
    /\ AsyncResultStatus(resp.id) = "SUCCESS"
    /\ AsyncResultGet(resp.id).kind = "other"
    /\ resp.body = Error("No markdown content available.")

C39_PdfAndImagePathsAgree ==
    /\ resp.op = "extract_content_from_pdf" =>
         LET image == extract_content_from_image(resp.text)
         IN  /\ resp.out.raised <=> image.raised
             /\ ~resp.out.raised
                  => /\ Len(resp.out.value) = 1
                     /\ resp.out.value[1].text = image.value.text
                     /\ resp.out.value[1].tables = image.value.tables
    /\ resp.op = "extract_content_from_image" =>
         LET pdf == extract_content_from_pdf(resp.text)
         IN  /\ resp.out.raised <=> pdf.raised
             /\ ~resp.out.raised
                  => /\ Len(pdf.value) = 1
                     /\ pdf.value[1].text = resp.out.value.text
                     /\ pdf.value[1].tables = resp.out.value.tables

\* the PDF path has parsed a fenced response into a document with a table
C39_Witness ==
    /\ resp.op = "extract_content_from_pdf"
    /\ IsFenced(resp.text)
    /\ ~resp.out.raised
    /\ resp.out.value[1].tables # <<>>

\* ---- the statuses of successive listings
\* C37 as stated: the statuses that successive list_tasks calls report for an
\* id never go backwards: after a call has reported SUCCESS or FAILURE for
\* an id, no later call reports PENDING or STARTED for it, also after the
\* result backend has dropped the result (result_expires).
C37_ReportedStatusNeverGoesBack ==
    [][\A r \in Requests :
          up[r].reported \in {"SUCCESS", "FAILURE"}
              => up'[r].reported \notin {"PENDING", "STARTED"}]_vars

\* ---- uploads under the same file name
\* C36 as stated: tasks are isolated from each other's uploads: whatever the
\* other request writes or removes and whatever the other task cleans up,
\* the worker of a task reads the content uploaded with that task, and the
\* task does not end with the error "File not found".
C36_TasksAreIsolated ==
    \A t \in Requests :
        /\ backend[t].result # Error("File not found")
        /\ backend[t].result.kind = "markdown" => backend[t].result = Markdown(t)

TypeOK ==
    /\ now \in 0..MaxTime
    /\ \A t \in TaskIds : broker[t] \in {"none", "ready", "unacked", "acked"}
    /\ \A t \in AllIds : backend[t].status \in {"PENDING", "SUCCESS", "FAILURE", "REVOKED"}
    /\ faults \in 0..MaxFaults

====
